---- MODULE Spec2Model ----
(***************************************************************************)
(* Register-level model of the Thorlabs_TMC5130 SPI driver.                *)
(*                                                                         *)
(* A 32-bit word (int32_t or uint32_t, the driver converts freely between  *)
(* the two) is represented by the signed value of its bit pattern, so      *)
(* 0xFFFFFFFF is -1 and 0x80000000 is -2147483648.  A byte is 0..255.  A   *)
(* frame is a 5-tuple of bytes; frame[1] is the C array's element [0].     *)
(***************************************************************************)
EXTENDS Integers, Sequences, FiniteSets, TLC

VARIABLES
    pc,       \* position of the driver: "idle", "done", or a call site of a hook
    op,       \* the public operation in progress (or last completed)
    k,        \* index of the register access the operation is at
    acc,      \* the register access in progress: kind, addr, data
    cmd,      \* read_register/write_register: uint8_t cmd[5]
    dummy,    \* read_register: uint8_t _dummy_cmd[5]
    out,      \* the int32_t the last read_register stored through its out pointer
    ret,      \* value returned by the operation
    shadow,   \* the public fields A1, V1, AMAX, VMAX, DMAX, D1, VSTOP
    cs,       \* the field _cs
    scope,    \* TRUE between Thorlabs_SPI_begin and Thorlabs_SPI_end
    trace,    \* hook calls of the operation in progress, in order
    pre,      \* chip registers when the operation was called
    preShadow,\* the shadow fields when the operation was called
    prev,     \* the operation completed before this one
    last,     \* per address, the data of the last completed write_register
    budget,   \* operations the calling program still issues
    reg,      \* chip: register file
    latch     \* chip: payload the next transfer will shift out

vars == <<pc, op, k, acc, cmd, dummy, out, ret, shadow, cs, scope, trace, pre,
          preShadow, prev, last, budget, reg, latch>>

(***************************************************************************)
(* Register addresses.                                                     *)
(***************************************************************************)
MCL_GCONF == 0
MCL_IHOLD_IRUN == 16
MCL_RAMPMODE == 32
MCL_XACTUAL == 33
MCL_VACTUAL == 34
MCL_A1 == 36
MCL_V1 == 37
MCL_AMAX == 38
MCL_VMAX == 39
MCL_DMAX == 40
MCL_D1 == 42
MCL_VSTOP == 43
MCL_XTARGET == 45
MCL_X_ENC == 57
MCL_CHOPCONF == 108
MCL_PWMCONF == 112

(***************************************************************************)
(* Bounds of the model.                                                    *)
(***************************************************************************)
\* Operations one behaviour of the chip specification calls.
MaxOps == 2

\* Events around one operation: frames of another caller, moves of the motor.
MaxAround == 2

(***************************************************************************)
(* 32-bit and 8-bit arithmetic.                                            *)
(***************************************************************************)
Int32Max == 2147483647
Int32Min == -Int32Max - 1

\* ~x on a 32-bit word.
Not32(x) == (-1) - x

\* a & b on 32-bit words (two's complement, bit by bit from the LSB).
RECURSIVE And32(_, _)
And32(a, b) ==
    IF a = 0 \/ b = 0 THEN 0
    ELSE IF a = -1 THEN b
    ELSE IF b = -1 THEN a
    ELSE (a % 2) * (b % 2) + 2 * And32(a \div 2, b \div 2)

\* a | b on 32-bit words.
Or32(a, b) == Not32(And32(Not32(a), Not32(b)))

\* 1 << n as a 32-bit word, n in 0..30.
Shl1(n) == 2 ^ n

\* a ^ b on bytes.
RECURSIVE Xor8(_, _)
Xor8(a, b) ==
    IF a = 0 THEN b
    ELSE IF b = 0 THEN a
    ELSE ((a + b) % 2) + 2 * Xor8(a \div 2, b \div 2)

\* (data >> n) & 0xFF
ShrByte(data, n) == (data \div (2 ^ n)) % 256

\* low 32 bits of a + b, the operands being 32-bit words
Add32(a, b) ==
    IF a > 0 /\ b > 0 /\ a > Int32Max - b THEN (a + Int32Min) + (b + Int32Min)
    ELSE IF a < 0 /\ b < 0 /\ a < Int32Min - b THEN (a - Int32Min) + (b - Int32Min)
    ELSE a + b

\* a + b leaves the range of int32_t
Overflows(a, b) ==
    \/ a > 0 /\ b > 0 /\ a > Int32Max - b
    \/ a < 0 /\ b < 0 /\ a < Int32Min - b

(***************************************************************************)
(* Frames.                                                                 *)
(***************************************************************************)
\* faulty variant of WriteFrame: the data bytes LSB first
WriteFrameSwapped(addr, data) ==
    << Xor8(addr, 128), ShrByte(data, 0), ShrByte(data, 8),
       ShrByte(data, 16), ShrByte(data, 24) >>

\* write_register: the command word
WriteFrame(addr, data) ==
    << Xor8(addr, 128), ShrByte(data, 24), ShrByte(data, 16),
       ShrByte(data, 8), ShrByte(data, 0) >>

\* read_register: the command word; only cmd[0] is assigned, cmd[1..4] keep
\* what the memory of the array held before the call (stale: five bytes)
ReadFrame(addr, stale) ==
    << Xor8(addr, 0), stale[2], stale[3], stale[4], stale[5] >>

\* faulty variant of Decode: the sign bit of the MSB is lost
DecodeUnsignedMSB(f) ==
    (f[2] % 128) * 16777216 + f[3] * 65536 + f[4] * 256 + f[5]

\* faulty variant of Decode: cmd[1] is left out
DecodeLowBytes(f) ==
    f[3] * 65536 + f[4] * 256 + f[5]

\* read_register: ((int32_t) cmd[1]) << 24 | cmd[2] << 16 | cmd[3] << 8 | cmd[4];
\* a byte of 0x80 or more in cmd[1] gives a negative int32_t
Decode(f) ==
    (IF f[2] >= 128 THEN f[2] - 256 ELSE f[2]) * 16777216
        + f[3] * 65536 + f[4] * 256 + f[5]

\* read_register: uint8_t _status = cmd[0]
StatusOf(f) == f[1]


(***************************************************************************)
(* Sample inputs.                                                          *)
(***************************************************************************)
\* 32-bit words: 0, 1, 0x88B8, 0x12345678, 0x80000000, 0xFFFFFFFF
WordSamples == {0, 1, 35000, 305419896, Int32Min, -1}

\* register addresses the chip specification operates on
RegAddrs ==
    {MCL_GCONF, MCL_IHOLD_IRUN, MCL_RAMPMODE, MCL_XACTUAL, MCL_VACTUAL,
     MCL_A1, MCL_V1, MCL_AMAX, MCL_VMAX, MCL_DMAX, MCL_D1, MCL_VSTOP,
     MCL_XTARGET, MCL_X_ENC, MCL_CHOPCONF, MCL_PWMCONF}

\* every value of the uint8_t addr argument
ByteRange == 0..255

\* what the memory of an uninitialised cmd array may hold at the first call
StaleSamples == {<<0, 0, 0, 0, 0>>, <<164, 0, 0, 136, 184>>, <<255, 255, 255, 255, 255>>}

\* responses of the scripted transport: status byte, four payload bytes
StubFrames ==
    {<<0, 0, 0, 0, 0>>, <<9, 0, 0, 136, 184>>, <<1, 128, 0, 0, 0>>,
     <<255, 255, 255, 255, 255>>, <<8, 18, 52, 86, 120>>}

(***************************************************************************)
(* Operations as sequences of register accesses.                           *)
(***************************************************************************)
W(addr, data) == [kind |-> "w", addr |-> addr, data |-> data]
R(addr) == [kind |-> "r", addr |-> addr, data |-> 0]
Trap == [kind |-> "trap", addr |-> 0, data |-> 0]
Return == [kind |-> "ret", addr |-> 0, data |-> 0]

NoOp ==
    [name |-> "none", addr |-> 0, val |-> 0, flag |-> FALSE,
     iHold |-> 0, iRun |-> 0, iDelay |-> 0, junkw |-> 0]

\* bool converted to int
BoolInt(b) == IF b THEN 1 ELSE 0

\* faulty variant of ReplaceBit: the mask is not complemented
ReplaceBitNoInvert(current, offset, flag) ==
    Or32(And32(current, Shl1(offset)), BoolInt(flag) * Shl1(offset))

\* faulty variant of ReplaceBit: the bit is added without being cleared
ReplaceBitAdd(current, offset, flag) ==
    Add32(current, BoolInt(flag) * Shl1(offset))

\* enableStealthChop / reverseDirection / setCurrentLimits:
\*   configMask = ~(1 << offset); new = current & configMask; new |= (flag << offset)
ReplaceBit(current, offset, flag) ==
    Or32(And32(current, Not32(Shl1(offset))), BoolInt(flag) * Shl1(offset))

en_pwm_mode_reg_offset == 2
shaft_reg_offset == 4
vsense_reg_offset == 17

\* a variant that writes D1 before DMAX
updateMotionProfile_access_swapped(sh, i) ==
    CASE i = 1 -> W(MCL_A1, sh.A1)
      [] i = 2 -> W(MCL_V1, sh.V1)
      [] i = 3 -> W(MCL_AMAX, sh.AMAX)
      [] i = 4 -> W(MCL_VMAX, sh.VMAX)
      [] i = 5 -> W(MCL_D1, sh.D1)
      [] i = 6 -> W(MCL_DMAX, sh.DMAX)
      [] i = 7 -> W(MCL_VSTOP, sh.VSTOP)
      [] OTHER -> Return

\* updateMotionProfile: the i-th write
updateMotionProfile_access(sh, i) ==
    CASE i = 1 -> W(MCL_A1, sh.A1)
      [] i = 2 -> W(MCL_V1, sh.V1)
      [] i = 3 -> W(MCL_AMAX, sh.AMAX)
      [] i = 4 -> W(MCL_VMAX, sh.VMAX)
      [] i = 5 -> W(MCL_DMAX, sh.DMAX)
      [] i = 6 -> W(MCL_D1, sh.D1)
      [] i = 7 -> W(MCL_VSTOP, sh.VSTOP)
      [] OTHER -> Return

\* basicMotorConfig: the i-th write (0x000301D5, 0x000501C8)
basicMotorConfig_access(i) ==
    CASE i = 1 -> W(MCL_CHOPCONF, 197077)
      [] i = 2 -> W(MCL_PWMCONF, 328136)
      [] OTHER -> Return

\* a variant that runs basicMotorConfig before updateMotionProfile
begin_access_config_first(sh, i) ==
    IF i <= 2 THEN basicMotorConfig_access(i)
    ELSE updateMotionProfile_access(sh, i - 2)

\* begin, after Thorlabs_SPI_setup: updateMotionProfile(); basicMotorConfig()
begin_access(sh, i) ==
    IF i <= 7 THEN updateMotionProfile_access(sh, i)
    ELSE basicMotorConfig_access(i - 7)

\* a variant that takes uSteps for the target
jog_access_absolute(o, i, buf) ==
    CASE i = 1 -> R(MCL_XACTUAL)
      [] i = 2 -> W(MCL_XTARGET, o.val)
      [] OTHER -> Return

\* jog: read XACTUAL, target = buf + uSteps, write XTARGET
jog_access(o, i, buf) ==
    CASE i = 1 -> R(MCL_XACTUAL)
      [] i = 2 -> W(MCL_XTARGET, Add32(buf, o.val))
      [] OTHER -> Return

\* what the build makes of jog: buf + uSteps is an addition of two int32_t,
\* undefined when the sum leaves the range; the build then either wraps the
\* sum or traps on the overflow (-ftrapv) before the write.
jog_outcomes(o, i, buf) ==
    {jog_access(o, i, buf)} \cup
        (IF i = 2 /\ Overflows(buf, o.val) THEN {Trap} ELSE {})

\* a variant that replaces the shaft bit
enableStealthChop_access_shaft(o, i, buf) ==
    CASE i = 1 -> R(MCL_GCONF)
      [] i = 2 -> W(MCL_GCONF, ReplaceBit(buf, shaft_reg_offset, o.flag))
      [] OTHER -> Return

enableStealthChop_access(o, i, buf) ==
    CASE i = 1 -> R(MCL_GCONF)
      [] i = 2 -> W(MCL_GCONF, ReplaceBit(buf, en_pwm_mode_reg_offset, o.flag))
      [] OTHER -> Return

reverseDirection_access(o, i, buf) ==
    CASE i = 1 -> R(MCL_GCONF)
      [] i = 2 -> W(MCL_GCONF, ReplaceBit(buf, shaft_reg_offset, o.flag))
      [] OTHER -> Return

\* a caller's assignment to the public shadow field of profile register a
AssignField(sh, a, v) ==
    CASE a = MCL_A1 -> [sh EXCEPT !.A1 = v]
      [] a = MCL_V1 -> [sh EXCEPT !.V1 = v]
      [] a = MCL_AMAX -> [sh EXCEPT !.AMAX = v]
      [] a = MCL_VMAX -> [sh EXCEPT !.VMAX = v]
      [] a = MCL_DMAX -> [sh EXCEPT !.DMAX = v]
      [] a = MCL_D1 -> [sh EXCEPT !.D1 = v]
      [] a = MCL_VSTOP -> [sh EXCEPT !.VSTOP = v]
      [] OTHER -> sh

\* a variant in which assigning a shadow field writes its register at once
assign_access_eager(o, i) ==
    IF i = 1 THEN W(o.addr, o.val) ELSE Return

\* the assignment of a shadow field is a plain store: no register access
assign_access(o, i) ==
    Return

\* an operation that is one write_register call
OneWrite(addr, data, i) == IF i = 1 THEN W(addr, data) ELSE Return

\* an operation that is one read_register call
OneRead(addr, i) == IF i = 1 THEN R(addr) ELSE Return


moveTo_access(o, i) == OneWrite(MCL_XTARGET, o.val, i)
isStopped_access(i) == OneRead(MCL_VACTUAL, i)
setRampMode_access(o, i) == OneWrite(MCL_RAMPMODE, o.val, i)
\* a variant that sends the velocity to V1
setVelocity_access_V1(sh, i) == OneWrite(MCL_V1, sh.VMAX, i)
setVelocity_access(sh, i) == OneWrite(MCL_VMAX, sh.VMAX, i)
setPosition_access(o, i) == OneWrite(MCL_XACTUAL, o.val, i)
getPosition_access(i) == OneRead(MCL_XACTUAL, i)
getEncoderPosition_access(i) == OneRead(MCL_X_ENC, i)
setEncoderPosition_access(o, i) == OneWrite(MCL_X_ENC, o.val, i)

(***************************************************************************)
(* setCurrentLimits.  Currents are in mA (the float arguments times 1000). *)
(***************************************************************************)
\* the threshold 0.75 of the comparisons
VfsThreshold == 750

\* iHoldCurrent > 0.75 || iRunCurrent > 0.75
AboveThreshold(hold, run) == hold > VfsThreshold \/ run > VfsThreshold

\* VfsVoltage = (...) ? 0.32 : 0.18, in mV
VfsVoltage(hold, run) == IF AboveThreshold(hold, run) THEN 320 ELSE 180

\* VfsBit = ~(...): the bool is promoted to int, complemented (-1 or -2) and
\* converted back to bool
VfsBit(hold, run) == Not32(BoolInt(AboveThreshold(hold, run))) # 0

\* conversion of an int to int8_t
ToInt8(t) == ((t + 128) % 256) - 128

\* abs(((32 * sqrt(2) * I * (Rsense + 0.02)) / VfsVoltage) - 1) assigned to an
\* int8_t: 32 * sqrt(2) * 0.17 = 7.6933, so the quotient is
\* (I * 76933) / (Vfs * 10000) with I in mA and Vfs in mV; the conversion
\* truncates towards zero
CurrentCode(current, vfs) ==
    LET num == current * 76933
        den == vfs * 10000
        diff == IF num >= den THEN num - den ELSE den - num
    IN  ToInt8(diff \div den)

\* IHOLD_IRUN_CONFIG: declared without an initialiser (junkw), then
\*   |= (iHoldDelay & 0xF) << 16;  |= (iRun & 0x1F) << 8;  |= (iHold & 0x1F)
IHOLD_IRUN_CONFIG(junkw, iHoldDelay, iRun, iHold) ==
    Or32(Or32(Or32(junkw, And32(iHoldDelay, 15) * 65536),
              And32(iRun, 31) * 256),
         And32(iHold, 31))

setCurrentLimits_access(o, i, buf) ==
    LET vfs == VfsVoltage(o.iHold, o.iRun)
    IN  CASE i = 1 -> W(MCL_IHOLD_IRUN,
                        IHOLD_IRUN_CONFIG(o.junkw, o.iDelay,
                                          CurrentCode(o.iRun, vfs),
                                          CurrentCode(o.iHold, vfs)))
          [] i = 2 -> R(MCL_CHOPCONF)
          [] i = 3 -> W(MCL_CHOPCONF,
                        ReplaceBit(buf, vsense_reg_offset, VfsBit(o.iHold, o.iRun)))
          [] OTHER -> Return

(***************************************************************************)
(* The i-th register access of operation o; buf is the value the last      *)
(* read_register stored, sh the shadow fields.                             *)
(***************************************************************************)
Access(o, i, buf, sh) ==
    CASE o.name = "begin" -> begin_access(sh, i)
      [] o.name = "write_register" -> OneWrite(o.addr, o.val, i)
      [] o.name = "read_register" -> OneRead(o.addr, i)
      [] o.name = "jog" -> jog_access(o, i, buf)
      [] o.name = "moveTo" -> moveTo_access(o, i)
      [] o.name = "isStopped" -> isStopped_access(i)
      [] o.name = "setRampMode" -> setRampMode_access(o, i)
      [] o.name = "setVelocity" -> setVelocity_access(sh, i)
      [] o.name = "enableStealthChop" -> enableStealthChop_access(o, i, buf)
      [] o.name = "reverseDirection" -> reverseDirection_access(o, i, buf)
      [] o.name = "setPosition" -> setPosition_access(o, i)
      [] o.name = "getPosition" -> getPosition_access(i)
      [] o.name = "setCurrentLimits" -> setCurrentLimits_access(o, i, buf)
      [] o.name = "updateMotionProfile" -> updateMotionProfile_access(sh, i)
      [] o.name = "getEncoderPosition" -> getEncoderPosition_access(i)
      [] o.name = "setEncoderPosition" -> setEncoderPosition_access(o, i)
      [] o.name = "assign" -> assign_access(o, i)
      [] OTHER -> Return

\* the i-th register access of o as the build may carry it out
Outcomes(o, i, buf, sh) ==
    IF o.name = "jog" THEN jog_outcomes(o, i, buf) ELSE {Access(o, i, buf, sh)}

\* a variant that takes a negative velocity for a stopped motor
isStopped_ret_nonpositive(buf) == buf <= 0

\* isStopped: (int)buf == 0
isStopped_ret(buf) == buf = 0

\* the value an operation returns: the status byte (read_register), the
\* register value (getPosition, getEncoderPosition), 1 or 0 for true or false
\* (isStopped), 0 for void
RetVal(o, buf, st) ==
    CASE o.name = "read_register" -> st
      [] o.name \in {"getPosition", "getEncoderPosition"} -> buf
      [] o.name = "isStopped" -> BoolInt(isStopped_ret(buf))
      [] OTHER -> 0

Unset == [set |-> FALSE, v |-> 0]
Stored(v) == [set |-> TRUE, v |-> v]

Event(e) == [ev |-> e, tx |-> <<>>, rx |-> <<>>, fault |-> FALSE]
Transfer(tx, rx, f) == [ev |-> "transfer", tx |-> tx, rx |-> rx, fault |-> f]

(***************************************************************************)
(* Control.                                                                *)
(***************************************************************************)
\* Enter the i-th register access of o: write_register and read_register build
\* their command word and stand before Thorlabs_SPI_begin; with no access left
\* the operation returns.
Enter(o, i, buf, st, sh) ==
    \E a \in Outcomes(o, i, buf, sh) :
        /\ k' = i
        /\ acc' = a
        /\ CASE a.kind = "w" ->
                  /\ cmd' = WriteFrame(a.addr, a.data)
                  /\ pc' = "w_begin"
                  /\ UNCHANGED <<dummy, ret>>
             [] a.kind = "r" ->
                  /\ cmd' = ReadFrame(a.addr, cmd)
                  /\ dummy' = ReadFrame(a.addr, cmd)
                  /\ pc' = "r_begin"
                  /\ UNCHANGED ret
             [] a.kind = "trap" ->
                  /\ pc' = "trap"
                  /\ UNCHANGED <<cmd, dummy, ret>>
             [] OTHER ->
                  /\ pc' = "done"
                  /\ ret' = RetVal(o, buf, st)
                  /\ UNCHANGED <<cmd, dummy>>

\* the driver is between two operations and the program has one more to call
CanCall == pc \in {"idle", "done"} /\ budget > 0

\* A caller invokes operation o.
Call(o) ==
    /\ CanCall
    /\ budget' = budget - 1
    /\ op' = o
    /\ prev' = op
    /\ pre' = reg
    /\ preShadow' = shadow
    /\ trace' = <<>>
    /\ out' = Unset

CallAccess(o) ==
    /\ Call(o)
    /\ Enter(o, 1, 0, 0, shadow)
    /\ UNCHANGED <<shadow, cs, scope, last, reg, latch>>


(***************************************************************************)
(* The public operations: the call, up to the first hook call.             *)
(***************************************************************************)
\* begin: _cs and the default profile are assigned, then Thorlabs_SPI_setup
begin(CS_pin) ==
    /\ Call([NoOp EXCEPT !.name = "begin", !.val = CS_pin])
    /\ cs' = CS_pin
    /\ shadow' = [A1 |-> 35000, V1 |-> 20000, AMAX |-> 10000, VMAX |-> 200000,
                  DMAX |-> 15000, D1 |-> 50000, VSTOP |-> 10]
    /\ pc' = "setup"
    /\ k' = 0
    /\ acc' = Return
    /\ UNCHANGED <<cmd, dummy, ret, scope, last, reg, latch>>

write_register(addr, data) ==
    CallAccess([NoOp EXCEPT !.name = "write_register", !.addr = addr, !.val = data])

read_register(addr) ==
    CallAccess([NoOp EXCEPT !.name = "read_register", !.addr = addr])

jog(uSteps) ==
    CallAccess([NoOp EXCEPT !.name = "jog", !.val = uSteps])

moveTo(pos) ==
    CallAccess([NoOp EXCEPT !.name = "moveTo", !.val = pos])

isStopped ==
    CallAccess([NoOp EXCEPT !.name = "isStopped"])

setRampMode(mode) ==
    CallAccess([NoOp EXCEPT !.name = "setRampMode", !.val = mode])

\* setVelocity: VMAX = velocity, then write_register(MCL_VMAX, VMAX)
setVelocity(velocity) ==
    LET o == [NoOp EXCEPT !.name = "setVelocity", !.val = velocity]
    IN  /\ Call(o)
        /\ shadow' = [shadow EXCEPT !.VMAX = velocity]
        /\ Enter(o, 1, 0, 0, shadow')
        /\ UNCHANGED <<cs, scope, last, reg, latch>>

enableStealthChop(enabled) ==
    CallAccess([NoOp EXCEPT !.name = "enableStealthChop", !.flag = enabled])

reverseDirection(enabled) ==
    CallAccess([NoOp EXCEPT !.name = "reverseDirection", !.flag = enabled])

setPosition(pos) ==
    CallAccess([NoOp EXCEPT !.name = "setPosition", !.val = pos])

getPosition ==
    CallAccess([NoOp EXCEPT !.name = "getPosition"])

\* junkw: what the uninitialised local IHOLD_IRUN_CONFIG holds
setCurrentLimits(iHoldCurrent, iRunCurrent, iHoldDelay, junkw) ==
    CallAccess([NoOp EXCEPT !.name = "setCurrentLimits", !.iHold = iHoldCurrent,
                            !.iRun = iRunCurrent, !.iDelay = iHoldDelay,
                            !.junkw = junkw])

updateMotionProfile ==
    CallAccess([NoOp EXCEPT !.name = "updateMotionProfile"])

getEncoderPosition ==
    CallAccess([NoOp EXCEPT !.name = "getEncoderPosition"])

setEncoderPosition(pos) ==
    CallAccess([NoOp EXCEPT !.name = "setEncoderPosition", !.val = pos])

\* the caller assigns v to the shadow field of profile register a
assign(a, v) ==
    LET o == [NoOp EXCEPT !.name = "assign", !.addr = a, !.val = v]
    IN  /\ Call(o)
        /\ shadow' = AssignField(shadow, a, v)
        /\ Enter(o, 1, 0, 0, shadow')
        /\ UNCHANGED <<cs, scope, last, reg, latch>>

(***************************************************************************)
(* The platform hooks, each followed by the driver code up to the next     *)
(* hook call.                                                              *)
(***************************************************************************)
\* begin: Thorlabs_SPI_setup(); updateMotionProfile() starts
Thorlabs_SPI_setup ==
    /\ pc = "setup"
    /\ trace' = Append(trace, Event("setup"))
    /\ Enter(op, 1, 0, 0, shadow)
    /\ UNCHANGED <<op, out, shadow, cs, scope, pre, preShadow, prev, last, budget,
                   reg, latch>>

\* a variant in which read_register goes on with its second transfer
Thorlabs_SPI_begin_single ==
    /\ pc \in {"w_begin", "r_begin"}
    /\ scope' = TRUE
    /\ trace' = Append(trace, Event("begin"))
    /\ pc' = IF pc = "w_begin" THEN "w_transfer" ELSE "r_transfer2"
    /\ UNCHANGED <<op, k, acc, cmd, dummy, out, ret, shadow, cs, pre, preShadow,
                   prev, last, budget, reg, latch>>

\* write_register, read_register: Thorlabs_SPI_begin()
Thorlabs_SPI_begin ==
    /\ pc \in {"w_begin", "r_begin"}
    /\ scope' = TRUE
    /\ trace' = Append(trace, Event("begin"))
    /\ pc' = IF pc = "w_begin" THEN "w_transfer" ELSE "r_transfer1"
    /\ UNCHANGED <<op, k, acc, cmd, dummy, out, ret, shadow, cs, pre, preShadow,
                   prev, last, budget, reg, latch>>

\* The driver's side of Thorlabs_SPI_transfer(buf, 5): write_register passes cmd;
\* read_register passes _dummy_cmd, then cmd.  The hook replaces the buffer by
\* the bytes received and returns void: a bus fault (fault) is not visible to
\* the driver.
Exchange(rx, fault) ==
    /\ pc \in {"w_transfer", "r_transfer1", "r_transfer2"}
    /\ trace' = Append(trace,
                       Transfer(IF pc = "r_transfer1" THEN dummy ELSE cmd, rx, fault))
    /\ CASE pc = "w_transfer" -> cmd' = rx /\ pc' = "w_end" /\ UNCHANGED dummy
         [] pc = "r_transfer1" -> dummy' = rx /\ pc' = "r_transfer2" /\ UNCHANGED cmd
         [] pc = "r_transfer2" -> cmd' = rx /\ pc' = "r_end" /\ UNCHANGED dummy
    /\ UNCHANGED <<op, k, acc, out, ret, shadow, cs, scope, pre, preShadow, prev,
                   last, budget>>

\* faulty variant of ReadResult: the first transfer's buffer is decoded
ReadResultFirst == dummy

\* read_register after its transfers: the buffer the status and the value are
\* taken from
ReadResult == cmd

\* write_register, read_register: Thorlabs_SPI_end(); read_register then decodes
\* cmd, stores *out and returns the status; the operation goes on
Thorlabs_SPI_end ==
    /\ pc \in {"w_end", "r_end"}
    /\ scope' = FALSE
    /\ trace' = Append(trace, Event("end"))
    /\ IF pc = "w_end"
       THEN /\ last' = {p \in last : p[1] # acc.addr} \cup {<<acc.addr, acc.data>>}
            /\ UNCHANGED out
            /\ Enter(op, k + 1, out.v, 0, shadow)
       ELSE /\ out' = Stored(Decode(ReadResult))
            /\ UNCHANGED last
            /\ Enter(op, k + 1, Decode(ReadResult), StatusOf(ReadResult), shadow)
    /\ UNCHANGED <<op, shadow, cs, pre, preShadow, prev, budget, reg, latch>>

(***************************************************************************)
(* The simulated chip: it stores what is written and answers every         *)
(* transfer with the result of the frame it received one transfer earlier. *)
(***************************************************************************)
\* the four payload bytes of a register value, MSB first
ChipBytes(v) == <<ShrByte(v, 24), ShrByte(v, 16), ShrByte(v, 8), ShrByte(v, 0)>>

\* the register value of four payload bytes
ChipWord(f) ==
    (IF f[2] >= 128 THEN f[2] - 256 ELSE f[2]) * 16777216
        + f[3] * 65536 + f[4] * 256 + f[5]

\* registers after the chip received frame tx
ChipRegs(tx, r) ==
    IF tx[1] >= 128 THEN [r EXCEPT ![tx[1] - 128] = ChipWord(tx)] ELSE r

\* what the chip answers to frame tx on the next transfer
ChipLatch(tx, r) ==
    IF tx[1] >= 128 THEN <<tx[2], tx[3], tx[4], tx[5]>> ELSE ChipBytes(r[tx[1]])

\* SPI_STATUS, the first byte of every answer: standstill (bit 3) and
\* position_reached (bit 5)
ChipStatus(r) ==
    (IF r[MCL_VACTUAL] = 0 THEN 8 ELSE 0)
        + (IF r[MCL_XACTUAL] = r[MCL_XTARGET] THEN 32 ELSE 0)

\* Thorlabs_SPI_transfer against the simulated chip
Thorlabs_SPI_transfer ==
    LET tx == IF pc = "r_transfer1" THEN dummy ELSE cmd
    IN  /\ Exchange(<<ChipStatus(reg), latch[1], latch[2], latch[3], latch[4]>>, FALSE)
        /\ reg' = ChipRegs(tx, reg)
        /\ latch' = ChipLatch(tx, reg)

\* Thorlabs_SPI_transfer against a scripted transport: any response, with or
\* without a bus fault
Thorlabs_SPI_transfer_stub ==
    \E rx \in StubFrames, fault \in BOOLEAN :
        /\ Exchange(rx, fault)
        /\ UNCHANGED <<reg, latch>>

(***************************************************************************)
(* The surroundings of an operation in progress: the frames of another     *)
(* caller's register operations on the same chip-select line, and the      *)
(* motor, which moves while the driver talks to the chip.  The driver has  *)
(* no lock and the chip no notion of a caller.                             *)
(***************************************************************************)
\* an operation of the driver is between its call and its return
InFlight == pc \in {"w_begin", "w_transfer", "w_end",
                    "r_begin", "r_transfer1", "r_transfer2", "r_end"}

\* what has happened around the operation in progress
Around == {i \in DOMAIN trace : trace[i].ev \in {"other", "motion"}}

\* registers the other caller reads; microsteps the motor takes at a time
OtherAddrs == {MCL_GCONF, MCL_XACTUAL}
MotionSamples == {7}

\* the frames another caller sends: the read frame of a register, and the
\* write frame of a reverseDirection(f) that has just read GCONF
OtherFrames ==
    {<<a, 0, 0, 0, 0>> : a \in OtherAddrs}
        \cup {WriteFrame(MCL_GCONF, ReplaceBit(reg[MCL_GCONF], shaft_reg_offset, f)) :
                  f \in BOOLEAN}

\* a frame of another caller reaches the chip
OtherTransfer ==
    /\ InFlight
    /\ Cardinality(Around) < MaxAround
    /\ \E tx \in OtherFrames :
          /\ trace' = Append(trace,
                [ev |-> "other", tx |-> tx, fault |-> FALSE,
                 rx |-> <<ChipStatus(reg), latch[1], latch[2], latch[3], latch[4]>>])
          /\ reg' = ChipRegs(tx, reg)
          /\ latch' = ChipLatch(tx, reg)
    /\ UNCHANGED <<pc, op, k, acc, cmd, dummy, out, ret, shadow, cs, scope, pre,
                   preShadow, prev, last, budget>>

\* the motor moves on: XACTUAL changes by d microsteps
Motion ==
    /\ InFlight
    /\ Cardinality(Around) < MaxAround
    /\ \E d \in MotionSamples :
          LET x == Add32(reg[MCL_XACTUAL], d)
          IN  /\ trace' = Append(trace,
                    [ev |-> "motion", tx |-> WriteFrame(MCL_XACTUAL, x),
                     rx |-> <<>>, fault |-> FALSE])
              /\ reg' = [reg EXCEPT ![MCL_XACTUAL] = x]
    /\ UNCHANGED <<pc, op, k, acc, cmd, dummy, out, ret, shadow, cs, scope, pre,
                   preShadow, prev, last, budget, latch>>

(***************************************************************************)
(* Initial states and inputs.                                              *)
(***************************************************************************)
\* when the program starts: the chip's GCONF, CHOPCONF, XACTUAL, VACTUAL; the
\* shadow fields, which have no initialiser (zero for a static object,
\* anything for an automatic one); the memory of the cmd array
\* (0x14 = 20, 0x000101D5 = 66005, 0x80000010 = Int32Min + 16)
ZeroProfile ==
    [A1 |-> 0, V1 |-> 0, AMAX |-> 0, VMAX |-> 0, DMAX |-> 0, D1 |-> 0, VSTOP |-> 0]

StaleProfile ==
    [A1 |-> 1000, V1 |-> 35000, AMAX |-> -1, VMAX |-> 50000, DMAX |-> 10000,
     D1 |-> 1000, VSTOP |-> 305419896]

StartSamples ==
    {<<0, 0, 0, 0, ZeroProfile, <<0, 0, 0, 0, 0>> >>,
     <<4, 197077, 1000, 0, ZeroProfile, <<164, 0, 0, 136, 184>> >>,
     <<20, 66005, -1, -5, StaleProfile, <<0, 0, 0, 0, 0>> >>,
     <<-1, -1, Int32Max, 7, ZeroProfile, <<255, 255, 255, 255, 255>> >>,
     <<Int32Min + 16, 0, Int32Min, 0, StaleProfile, <<9, 128, 0, 0, 1>> >>}

ChipInit(t) ==
    [a \in RegAddrs |->
        CASE a = MCL_GCONF -> t[1]
          [] a = MCL_CHOPCONF -> t[2]
          [] a = MCL_XACTUAL -> t[3]
          [] a = MCL_VACTUAL -> t[4]
          [] OTHER -> 0]

\* arguments of the operations
CallAddrs == {MCL_GCONF, MCL_A1}
CallWords == {305419896, Int32Min}
ReadAddrs == {MCL_GCONF, MCL_XACTUAL, MCL_XTARGET}
StepSamples == {1000, -1}
PosSamples == {35000, Int32Min}
ModeSamples == {1, 3}
VelocitySamples == {200000, -1}
AssignAddrs == {MCL_A1}
EncoderSamples == {-1}
AssignWords == {777}
\* setCurrentLimits: hold current, run current (mA), hold delay, junk word
LimitSamples ==
    {<<0, 0, 7, 0>>, <<100, 750, 7, -1>>, <<750, 751, 7, 0>>,
     <<1400, 2000, 15, -1>>, <<1400, 1350, 7, 0>>}

InitCommon ==
    /\ pc = "idle"
    /\ op = NoOp
    /\ k = 0
    /\ acc = Return
    /\ dummy = <<0, 0, 0, 0, 0>>
    /\ out = Unset
    /\ ret = 0
    /\ cs = 0
    /\ scope = FALSE
    /\ trace = <<>>
    /\ prev = NoOp
    /\ last = {}
    /\ latch = <<0, 0, 0, 0>>

\* the driver on the simulated chip
Init ==
    /\ InitCommon
    /\ \E t \in StartSamples :
          /\ reg = ChipInit(t)
          /\ shadow = t[5]
          /\ cmd = t[6]
    /\ pre = reg
    /\ preShadow = shadow
    /\ budget = MaxOps

Next ==
    \/ CanCall /\ \E pin \in {10} : begin(pin)
    \/ CanCall /\ \E a \in CallAddrs, v \in CallWords : write_register(a, v)
    \/ CanCall /\ \E a \in ReadAddrs : read_register(a)
    \/ CanCall /\ \E s \in StepSamples : jog(s)
    \/ CanCall /\ \E p \in PosSamples : moveTo(p)
    \/ isStopped
    \/ CanCall /\ \E m \in ModeSamples : setRampMode(m)
    \/ CanCall /\ \E v \in VelocitySamples : setVelocity(v)
    \/ CanCall /\ \E f \in BOOLEAN : enableStealthChop(f)
    \/ CanCall /\ \E f \in BOOLEAN : reverseDirection(f)
    \/ CanCall /\ \E p \in PosSamples : setPosition(p)
    \/ getPosition
    \/ CanCall /\ \E c \in LimitSamples : setCurrentLimits(c[1], c[2], c[3], c[4])
    \/ updateMotionProfile
    \/ getEncoderPosition
    \/ CanCall /\ \E p \in EncoderSamples : setEncoderPosition(p)
    \/ CanCall /\ \E a \in AssignAddrs, v \in AssignWords : assign(a, v)
    \/ Thorlabs_SPI_setup
    \/ Thorlabs_SPI_begin
    \/ Thorlabs_SPI_transfer
    \/ Thorlabs_SPI_end

Spec == Init /\ [][Next]_vars

\* the register transaction layer on a scripted transport: one call of
\* write_register or read_register, any address byte
InitReg ==
    /\ InitCommon
    /\ shadow = ZeroProfile
    /\ cmd \in StaleSamples
    /\ reg = ChipInit(<<0, 0, 0, 0>>)
    /\ pre = reg
    /\ preShadow = shadow
    /\ budget = 1

NextReg ==
    \/ CanCall /\ \E a \in ByteRange, v \in WordSamples : write_register(a, v)
    \/ CanCall /\ \E a \in ByteRange : read_register(a)
    \/ Thorlabs_SPI_begin
    \/ Thorlabs_SPI_transfer_stub
    \/ Thorlabs_SPI_end

SpecReg == InitReg /\ [][NextReg]_vars

\* one operation of the driver with another caller and a moving motor around
\* it
InitShared ==
    /\ InitCommon
    /\ \E t \in StartSamples :
          /\ reg = ChipInit(t)
          /\ shadow = t[5]
          /\ cmd = t[6]
    /\ pre = reg
    /\ preShadow = shadow
    /\ budget = 1

NextShared ==
    \/ CanCall /\ \E a \in ReadAddrs : read_register(a)
    \/ CanCall /\ \E s \in StepSamples : jog(s)
    \/ CanCall /\ \E f \in BOOLEAN : enableStealthChop(f)
    \/ CanCall /\ \E f \in BOOLEAN : reverseDirection(f)
    \/ Thorlabs_SPI_begin
    \/ Thorlabs_SPI_transfer
    \/ Thorlabs_SPI_end
    \/ OtherTransfer
    \/ Motion

SpecShared == InitShared /\ [][NextShared]_vars

(***************************************************************************)
(* Properties.                                                             *)
(***************************************************************************)
\* operation name has returned
Finished(name) == pc = "done" /\ op.name = name

\* the transfers of the operation in progress, in order
Transfers == SelectSeq(trace, LAMBDA e : e.ev = "transfer")

\* the hook calls of the operation in progress, in order
Events == [i \in DOMAIN trace |-> trace[i].ev]

\* the 32-bit word a frame carries in bytes 1 to 4, MSB first
FrameValue(f) ==
    (IF f[2] >= 128 THEN f[2] - 256 ELSE f[2]) * 16777216
        + f[3] * 65536 + f[4] * 256 + f[5]

\* bit n of word w, and w with bit n replaced by b
BitOf(w, n) == (w \div (2 ^ n)) % 2
WithBit(w, n, b) == w - BitOf(w, n) * (2 ^ n) + b * (2 ^ n)

\* the seven motion profile registers in the order of updateMotionProfile, and
\* the shadow fields sh in the same order
ProfileAddrs == <<MCL_A1, MCL_V1, MCL_AMAX, MCL_VMAX, MCL_DMAX, MCL_D1, MCL_VSTOP>>
ProfileWords(sh) == <<sh.A1, sh.V1, sh.AMAX, sh.VMAX, sh.DMAX, sh.D1, sh.VSTOP>>

\* byte 0 and the data word of every frame the operation in progress has sent
Sent == [i \in DOMAIN Transfers |-> <<Transfers[i].tx[1], FrameValue(Transfers[i].tx)>>]

\* the operation in progress has sent no write frame for register a and the
\* chip register a holds what it held at the call
Untouched(a) ==
    /\ reg[a] = pre[a]
    /\ \A i \in DOMAIN Transfers : Transfers[i].tx[1] # a + 128

\* operation o is one that writes profile register a from the shadow fields
ProfileWriter(o, a) ==
    \/ o.name \in {"updateMotionProfile", "begin"}
    \/ o.name = "setVelocity" /\ a = MCL_VMAX

\* operation o is a direct register call on the address of register a
DirectCall(o, a) ==
    o.name \in {"write_register", "read_register"} /\ o.addr % 128 = a

\* the write frames of the operation in progress address only register a
WritesOnly(a) ==
    \A i \in DOMAIN trace :
        (trace[i].ev = "transfer" /\ trace[i].tx[1] >= 128) => trace[i].tx[1] = a + 128

\* C1: for addr in 0x00..0x7F, write_register(addr, v) hands the transport
\* exactly one 5-byte frame: byte 0 is addr | 0x80 and bytes 1 to 4 are v, MSB
\* first; write_register(0x24, 0x000088B8) transmits [0xA4, 0x00, 0x00, 0x88, 0xB8].
C1_WriteFrame ==
    (Finished("write_register") /\ op.addr <= 127) =>
        /\ Len(Transfers) = 1
        /\ LET f == Transfers[1].tx
           IN  /\ Len(f) = 5
               /\ \A i \in 1..5 : f[i] \in 0..255
               /\ f[1] = op.addr + 128
               /\ FrameValue(f) = op.val
               /\ (op.addr = 36 /\ op.val = 35000) => f = <<164, 0, 0, 136, 184>>

C1_Witness ==
    /\ Finished("write_register")
    /\ op.addr = 36
    /\ op.val = 35000
    /\ Transfers[1].tx = <<164, 0, 0, 136, 184>>

\* C2: read_register returns the status byte of the second transfer's response
\* and stores the signed 32-bit word of its bytes 1 to 4; the first response
\* has no part in either.
C2_ReadDecodesSecond ==
    Finished("read_register") =>
        /\ Len(Transfers) = 2
        /\ ret = Transfers[2].rx[1]
        /\ out = Stored(FrameValue(Transfers[2].rx))

C2_Witness ==
    /\ Finished("read_register")
    /\ Transfers[1].rx = <<255, 255, 255, 255, 255>>
    /\ Transfers[2].rx = <<1, 128, 0, 0, 0>>
    /\ ret = 1
    /\ out = Stored(Int32Min)

C4_ReadFrameZero ==
    Finished("read_register") =>
        \A i \in DOMAIN Transfers : Transfers[i].tx = <<op.addr, 0, 0, 0, 0>>

\* C5: read_register runs its two transfers in two chip-select scopes:
\* begin, transfer, end, begin, transfer, end.
C5_TwoScopes ==
    Finished("read_register") =>
        Events = <<"begin", "transfer", "end", "begin", "transfer", "end">>

\* C6: a transfer that fails is the last transfer of its operation, and
\* read_register stores nothing through its out pointer after it.
C6_AbortOnFault ==
    \A i \in DOMAIN trace :
        trace[i].fault =>
            /\ \A j \in DOMAIN trace : j > i => trace[j].ev # "transfer"
            /\ ~out.set

\* C7: enableStealthChop(f) replaces bit 2 of GCONF by f, reverseDirection(f)
\* bit 4; the other bits of GCONF and every other register keep their value.
C7_BitReplaced ==
    /\ Finished("enableStealthChop") =>
          /\ reg = [pre EXCEPT ![MCL_GCONF] = WithBit(pre[MCL_GCONF], 2, BoolInt(op.flag))]
          /\ WritesOnly(MCL_GCONF)
    /\ Finished("reverseDirection") =>
          /\ reg = [pre EXCEPT ![MCL_GCONF] = WithBit(pre[MCL_GCONF], 4, BoolInt(op.flag))]
          /\ WritesOnly(MCL_GCONF)

C7_Witness ==
    /\ Finished("enableStealthChop")
    /\ op.flag
    /\ pre[MCL_GCONF] = Int32Min + 16
    /\ reg[MCL_GCONF] = Int32Min + 20

\* C8: enableStealthChop(f) right after enableStealthChop(f) leaves GCONF as the
\* first call left it; enableStealthChop(false) right after
\* enableStealthChop(true) clears bit 2 and changes no other bit.
C8_Idempotent ==
    (Finished("enableStealthChop") /\ prev.name = "enableStealthChop") =>
        /\ prev.flag = op.flag => reg[MCL_GCONF] = pre[MCL_GCONF]
        /\ (prev.flag /\ ~op.flag) =>
              /\ BitOf(pre[MCL_GCONF], 2) = 1
              /\ reg[MCL_GCONF] = pre[MCL_GCONF] - 4

C8_Witness ==
    /\ Finished("enableStealthChop")
    /\ prev.name = "enableStealthChop"
    /\ prev.flag
    /\ ~op.flag
    /\ pre[MCL_GCONF] = -1
    /\ reg[MCL_GCONF] = -5

\* C9: the bit setCurrentLimits writes into bit 17 of CHOPCONF follows the
\* range chosen: two calls in a row that choose different ranges leave
\* different bits; the other bits of CHOPCONF keep their value.
C9_VsenseFollowsRange ==
    Finished("setCurrentLimits") =>
        /\ reg[MCL_CHOPCONF] =
              WithBit(pre[MCL_CHOPCONF], 17, BitOf(reg[MCL_CHOPCONF], 17))
        /\ (/\ prev.name = "setCurrentLimits"
            /\ AboveThreshold(prev.iHold, prev.iRun) # AboveThreshold(op.iHold, op.iRun))
              => BitOf(reg[MCL_CHOPCONF], 17) # BitOf(pre[MCL_CHOPCONF], 17)

\* the 5-bit code of a current before any clamping: |7.6933 I / Vfs - 1|
\* truncated, I in mA and Vfs in mV
UnclampedCode(current, hold, run) ==
    LET den == (IF hold > 750 \/ run > 750 THEN 320 ELSE 180) * 10000
        num == current * 76933
    IN  (IF num >= den THEN num - den ELSE den - num) \div den

\* C10: the iHold and iRun codes in the word written to IHOLD_IRUN are in
\* 0..31, and are 31 when the unclamped code exceeds 31.
C10_CodesSaturate ==
    Finished("setCurrentLimits") =>
        LET w == reg[MCL_IHOLD_IRUN]
            holdCode == w % 32
            runCode == (w \div 256) % 32
        IN  /\ holdCode \in 0..31
            /\ runCode \in 0..31
            /\ UnclampedCode(op.iHold, op.iHold, op.iRun) > 31 => holdCode = 31
            /\ UnclampedCode(op.iRun, op.iHold, op.iRun) > 31 => runCode = 31

\* C11: the word setCurrentLimits writes to IHOLD_IRUN holds the low four bits
\* of iHoldDelay in bits 16..19, the run code in bits 8..12 and the hold code
\* in bits 0..4; every other bit of the word is 0.
C11_PackedWord ==
    Finished("setCurrentLimits") =>
        LET w == reg[MCL_IHOLD_IRUN]
        IN  w = (op.iDelay % 16) * 65536 + ((w \div 256) % 32) * 256 + (w % 32)

\* C12: updateMotionProfile sends seven frames, the writes of A1, V1, AMAX,
\* VMAX, DMAX, D1 and VSTOP in this order, each with the value of its shadow
\* field; it sends no read frame and leaves the shadow fields alone; when it
\* returns every profile register of the chip holds its shadow field.
C12_ProfileWritten ==
    Finished("updateMotionProfile") =>
        /\ Sent = [i \in 1..7 |-> <<ProfileAddrs[i] + 128, ProfileWords(shadow)[i]>>]
        /\ shadow = preShadow
        /\ \A i \in 1..7 : reg[ProfileAddrs[i]] = ProfileWords(shadow)[i]

C12_Witness ==
    /\ Finished("updateMotionProfile")
    /\ shadow = StaleProfile
    /\ pre[MCL_VSTOP] = 0
    /\ reg[MCL_VSTOP] = 305419896
    /\ reg[MCL_AMAX] = -1

\* C13 as stated: assigning a shadow field sends nothing, and only
\* updateMotionProfile, begin and setVelocity (VMAX only) write a profile
\* register; under every other operation the chip register keeps its value.
C13_OnlyProfileWriters ==
    /\ op.name = "assign" => trace = <<>> /\ reg = pre
    /\ \A i \in 1..7 :
          ~ProfileWriter(op, ProfileAddrs[i]) => Untouched(ProfileAddrs[i])

\* C13: assigning a shadow field sends nothing, and no operation other than
\* updateMotionProfile, begin, setVelocity (VMAX only) and a direct
\* write_register or read_register call on the address of the register writes
\* a profile register: the chip register keeps the value it had.
C13_NoEagerSync ==
    /\ op.name = "assign" => trace = <<>> /\ reg = pre
    /\ \A i \in 1..7 :
          (~ProfileWriter(op, ProfileAddrs[i]) /\ ~DirectCall(op, ProfileAddrs[i]))
              => Untouched(ProfileAddrs[i])

C13_Witness ==
    /\ Finished("jog")
    /\ prev.name = "assign"
    /\ prev.addr = MCL_A1
    /\ shadow.A1 = 777
    /\ reg[MCL_A1] = 0
    /\ reg[MCL_XTARGET] # pre[MCL_XTARGET]

\* C14: setVelocity(v) sets the shadow VMAX to v and sends one frame, the write
\* of v to VMAX; when it returns the chip VMAX equals the shadow VMAX, and no
\* other shadow field and no other register has changed.
C14_SetVelocity ==
    Finished("setVelocity") =>
        /\ shadow = [preShadow EXCEPT !.VMAX = op.val]
        /\ Sent = << <<MCL_VMAX + 128, op.val>> >>
        /\ reg = [pre EXCEPT ![MCL_VMAX] = op.val]
        /\ reg[MCL_VMAX] = shadow.VMAX

C14_Witness ==
    /\ Finished("setVelocity")
    /\ prev.name = "setRampMode"
    /\ reg[MCL_RAMPMODE] = 3
    /\ op.val = -1
    /\ preShadow.VMAX = 50000
    /\ pre[MCL_VMAX] = 0
    /\ reg[MCL_VMAX] = -1

\* C15: jog(s) sends the two frames of a read of XACTUAL and then one write
\* frame, XTARGET = p + s wrapped to 32 bits, p being the value decoded from
\* the second frame; it writes no other register. moveTo(pos) sends one frame,
\* the write of pos to XTARGET.
C15_JogTarget ==
    /\ (op.name = "jog" /\ pc \in {"done", "trap"}) =>
          /\ Len(Transfers) = 3
          /\ Transfers[1].tx[1] = MCL_XACTUAL
          /\ Transfers[2].tx[1] = MCL_XACTUAL
          /\ Sent[3] = <<MCL_XTARGET + 128,
                         Add32(FrameValue(Transfers[2].rx), op.val)>>
          /\ reg = [pre EXCEPT ![MCL_XTARGET] = Add32(pre[MCL_XACTUAL], op.val)]
    /\ Finished("moveTo") =>
          /\ Sent = << <<MCL_XTARGET + 128, op.val>> >>
          /\ reg = [pre EXCEPT ![MCL_XTARGET] = op.val]

\* C16: isStopped sends the two frames of a read of VACTUAL and no write frame;
\* it returns true exactly when the signed value decoded from the second
\* frame's response, the content of VACTUAL, is 0; no register changes.
C16_IsStopped ==
    Finished("isStopped") =>
        /\ Len(Transfers) = 2
        /\ \A i \in 1..2 : Transfers[i].tx[1] = MCL_VACTUAL
        /\ ret = BoolInt(FrameValue(Transfers[2].rx) = 0)
        /\ ret = BoolInt(pre[MCL_VACTUAL] = 0)
        /\ reg = pre

C16_Witness ==
    /\ Finished("isStopped")
    /\ pre[MCL_VACTUAL] = -5
    /\ FrameValue(Transfers[2].rx) = -5
    /\ ret = 0

\* the words begin is to send: the default profile (0x88B8, 0x4E20, 0x2710,
\* 0x30D40, 0x3A98, 0xC350, 0xA), then 0x000301D5 and 0x000501C8
BeginWords == <<35000, 20000, 10000, 200000, 15000, 50000, 10, 197077, 328136>>
BeginAddrs == ProfileAddrs \o <<MCL_CHOPCONF, MCL_PWMCONF>>

\* C17: in begin the setup hook runs once and before every transfer; begin
\* then sends nine write frames: the seven profile registers with their
\* defaults, 0x000301D5 to CHOPCONF, 0x000501C8 to PWMCONF; when it returns the
\* shadow fields equal the profile registers of the chip.
C17_Begin ==
    /\ (op.name = "begin" /\ trace # <<>>) =>
          /\ Events[1] = "setup"
          /\ \A i \in DOMAIN trace : i > 1 => Events[i] # "setup"
    /\ Finished("begin") =>
          /\ Sent = [i \in 1..9 |-> <<BeginAddrs[i] + 128, BeginWords[i]>>]
          /\ \A i \in 1..7 :
                /\ ProfileWords(shadow)[i] = BeginWords[i]
                /\ reg[ProfileAddrs[i]] = ProfileWords(shadow)[i]

C17_Witness ==
    /\ Finished("begin")
    /\ preShadow = StaleProfile
    /\ pre[MCL_PWMCONF] = 0
    /\ reg[MCL_PWMCONF] = 328136
    /\ reg[MCL_VMAX] = 200000
    /\ Len(trace) = 28

\* the i-th event of the trace lies in an open scope: a begin comes before it
\* with no end in between
InScope(i) ==
    \E j \in 1..(i - 1) :
        /\ trace[j].ev = "begin"
        /\ \A h \in (j + 1)..(i - 1) : trace[h].ev # "end"

CountOf(e) == Cardinality({i \in DOMAIN trace : trace[i].ev = e})

\* the register calls an operation makes: <<write_register calls,
\* read_register calls>>
RegisterCalls(name) ==
    CASE name = "begin" -> <<9, 0>>
      [] name = "updateMotionProfile" -> <<7, 0>>
      [] name = "setCurrentLimits" -> <<2, 1>>
      [] name \in {"jog", "enableStealthChop", "reverseDirection"} -> <<1, 1>>
      [] name \in {"read_register", "isStopped", "getPosition",
                   "getEncoderPosition"} -> <<0, 1>>
      [] name = "assign" -> <<0, 0>>
      [] OTHER -> <<1, 0>>

\* C18: every transfer lies between a begin and the next end; a write_register
\* call is begin, one transfer, end; a read_register call makes two transfers;
\* an operation makes one transfer for each of its write_register calls and
\* two for each of its read_register calls, none repeated; when an operation
\* returns every scope it opened is closed.
C18_ScopedTransfers ==
    /\ \A i \in DOMAIN trace : trace[i].ev = "transfer" => InScope(i)
    /\ scope = (pc \in {"w_transfer", "w_end", "r_transfer1", "r_transfer2", "r_end"})
    /\ Finished("write_register") => Events = <<"begin", "transfer", "end">>
    /\ Finished("read_register") => Len(Transfers) = 2
    /\ pc = "done" =>
          /\ ~scope
          /\ CountOf("begin") = CountOf("end")
          /\ Len(Transfers) = RegisterCalls(op.name)[1] + 2 * RegisterCalls(op.name)[2]
          /\ CountOf("begin") = RegisterCalls(op.name)[1] + RegisterCalls(op.name)[2]

C18_Witness ==
    /\ Finished("setCurrentLimits")
    /\ Events = <<"begin", "transfer", "end", "begin", "transfer", "transfer", "end",
                  "begin", "transfer", "end">>
    /\ ~scope

\* C20: whatever the address byte, every frame of a write_register call has
\* bit 7 of byte 0 set and every frame of a read_register call has it clear.
C20_DirectionBit ==
    \A i \in DOMAIN Transfers :
        /\ op.name = "write_register" => Transfers[i].tx[1] >= 128
        /\ op.name = "read_register" => Transfers[i].tx[1] < 128

\* the place in the trace of the n-th transfer of the operation in progress
TransferAt(n) ==
    CHOOSE i \in DOMAIN trace :
        /\ trace[i].ev = "transfer"
        /\ Cardinality({j \in 1..i : trace[j].ev = "transfer"}) = n

\* the chip registers just before the i-th event of the trace
RECURSIVE RegsBefore(_)
RegsBefore(i) ==
    IF i <= 1 THEN pre
    ELSE IF trace[i - 1].ev \in {"transfer", "other", "motion"}
         THEN ChipRegs(trace[i - 1].tx, RegsBefore(i - 1))
         ELSE RegsBefore(i - 1)

\* the places of the other caller's frames between places a and b of the trace
OthersBetween(a, b) == {j \in (a + 1)..(b - 1) : trace[j].ev = "other"}

\* what the chip answers to the frame at place j of the trace
AnswerTo(j) ==
    IF trace[j].tx[1] >= 128 THEN FrameValue(trace[j].tx)
    ELSE RegsBefore(j)[trace[j].tx[1]]

\* C21: read_register(X) always stores a value and returns a status byte, with
\* no sign of an error.  With no frame of another caller between its two
\* transfers the value is the content X had at the first transfer; with one
\* in between it is the chip's answer to the last such frame.
C21_InterleavedRead ==
    Finished("read_register") =>
        LET arm == TransferAt(1)
            fetch == TransferAt(2)
            others == OthersBetween(arm, fetch)
        IN  /\ out.set
            /\ ret \in 0..255
            /\ others = {} => out.v = RegsBefore(arm)[op.addr]
            /\ others # {} =>
                  out.v = AnswerTo(CHOOSE j \in others : \A h \in others : h <= j)

C21_Witness ==
    /\ Finished("read_register")
    /\ op.addr = MCL_GCONF
    /\ OthersBetween(TransferAt(1), TransferAt(2)) # {}
    /\ reg[MCL_GCONF] = 20
    /\ reg[MCL_XACTUAL] = -1
    /\ out = Stored(-1)

\* the places between a and b where the other caller writes GCONF
GconfWritesBetween(a, b) ==
    {j \in OthersBetween(a, b) : trace[j].tx[1] = MCL_GCONF + 128}

\* C22: enableStealthChop and reverseDirection write GCONF as they read it,
\* with their own bit replaced.  When another caller writes GCONF between the
\* read and the write, the other bit (4 for enableStealthChop, 2 for
\* reverseDirection) is back at the value it had before that write: the update
\* is lost.  With no such write, GCONF changes in the own bit only.
C22_LostUpdate ==
    (pc = "done" /\ op.name \in {"enableStealthChop", "reverseDirection"}) =>
        LET own == IF op.name = "enableStealthChop" THEN 2 ELSE 4
            other == IF op.name = "enableStealthChop" THEN 4 ELSE 2
            arm == TransferAt(1)
            fetch == TransferAt(2)
            wr == TransferAt(3)
            read == FrameValue(trace[fetch].rx)
            after == RegsBefore(wr + 1)[MCL_GCONF]
        IN  /\ after = WithBit(read, own, BoolInt(op.flag))
            /\ OthersBetween(arm, fetch) = {} =>
                  /\ read = RegsBefore(arm)[MCL_GCONF]
                  /\ GconfWritesBetween(arm, wr) # {} =>
                        BitOf(after, other) = BitOf(RegsBefore(arm)[MCL_GCONF], other)
                  /\ GconfWritesBetween(arm, wr) = {} =>
                        after = WithBit(RegsBefore(wr)[MCL_GCONF], own, BoolInt(op.flag))

C22_Witness ==
    /\ Finished("enableStealthChop")
    /\ op.flag
    /\ Cardinality(Around) = 1
    /\ \E j \in GconfWritesBetween(TransferAt(2), TransferAt(3)) :
          /\ FrameValue(trace[j].tx) = 16
          /\ RegsBefore(j)[MCL_GCONF] = 0
    /\ reg[MCL_GCONF] = 4

\* the places between a and b where the motor moved
MotionBetween(a, b) == {j \in (a + 1)..(b - 1) : trace[j].ev = "motion"}

\* C23: a jog(s) that returns has made three transfers, the two of its read of
\* XACTUAL and the write of XTARGET, and none to read the position again; the
\* target written is p + s, p being the position it read, also when the motor
\* has moved XACTUAL on between the read and the write.
C23_StaleJog ==
    Finished("jog") =>
        LET arm == TransferAt(1)
            wr == TransferAt(3)
            p == FrameValue(Transfers[2].rx)
        IN  /\ Len(Transfers) = 3
            /\ Transfers[1].tx[1] = MCL_XACTUAL
            /\ Transfers[2].tx[1] = MCL_XACTUAL
            /\ Sent[3] = <<MCL_XTARGET + 128, Add32(p, op.val)>>
            /\ RegsBefore(wr + 1)[MCL_XTARGET] = Add32(p, op.val)
            /\ OthersBetween(arm, TransferAt(2)) = {} => p = RegsBefore(arm)[MCL_XACTUAL]

C23_Witness ==
    /\ Finished("jog")
    /\ op.val = 1000
    /\ Around = MotionBetween(TransferAt(2), TransferAt(3))
    /\ Cardinality(Around) = 1
    /\ pre[MCL_XACTUAL] = 1000
    /\ reg[MCL_XACTUAL] = 1007
    /\ reg[MCL_XTARGET] = 2000

====
